---- MODULE Spec2Model ----
(***************************************************************************)
(* A model of the game-store backend (server.js) and of the part of its   *)
(* SQL Server schema (tables, foreign keys, unique constraint, inventory  *)
(* trigger) that the handlers rely on.                                    *)
(*                                                                         *)
(* Every handler is a sequence of steps separated by the awaits of its    *)
(* code; the steps of different requests interleave freely, as they do on *)
(* the Node event loop.  A database transaction is a private write set    *)
(* that commit publishes and rollback discards; statements run through    *)
(* pool.request() outside a transaction take effect at once.  Rows        *)
(* written by an open transaction are locked: a statement of another      *)
(* request that has to read them waits (its action is not enabled).       *)
(***************************************************************************)
EXTENDS Integers, Sequences, FiniteSets, TLC

\* ------------------------------------------------------------------ bounds

\* Longest cart a checkout request carries.
MaxCartLen == 2
\* stock_quantity of the stocked game when the model starts.
InitStock == 3

\* ------------------------------------------------------------ input domains

CheckoutReqs == {"c1", "c2"}
DeleteReqs == {"d1"}
CreateReqs == {"g1", "g2"}
UpdateReqs == {"u1"}
RegisterReqs == {"r1", "r2"}

\* Game ids a cart may name (both exist when the model starts; a delete can
\* remove one) and game ids an admin request may name (3 never exists).
GameRefs == {1, 2}
AdminGameRefs == {1, 2, 3}
Quantities == {1, 2}
Prices == {5}

\* Titles of req.body; "" is a missing title.  The first two are the titles
\* of the games that exist when the model starts.
Titles == {"Doom", "Quake", "Halo"}
\* x-request-id headers; "" is a request without the header.
RequestIdHeaders == {"", "rid-1"}
\* Emails of req.body; "" is a missing email.
Emails == {"", "ann@example.com", "bob@example.com"}
Roles == {"customer", "admin"}

\* What POST /api/games reads of a request: the x-request-id header, the
\* title, and whether description, price, genre, platform and image are all there.
CreateRequest(header, title, rest) == [header |-> header, title |-> title, rest |-> rest]

\* req.body of POST /api/register; username and password count as one field
\* ("" when either is missing).
RegisterBody(credentials, email, role) ==
  [credentials |-> credentials, email |-> email, role |-> role]

RECURSIVE SeqsUpTo(_, _)
SeqsUpTo(S, n) ==
  IF n = 0 THEN {<<>>}
  ELSE LET shorter == SeqsUpTo(S, n - 1)
       IN shorter \cup {Append(s, x) : s \in {t \in shorter : Len(t) = n - 1}, x \in S}

CartLines == [game_id : GameRefs, quantity : Quantities, price : Prices]
Carts == SeqsUpTo(CartLines, MaxCartLen)

\* req.body of POST /api/checkout.  itemsGiven = FALSE is a body without
\* items; totalAmount 0 and paymentMethodId 0 stand for the falsy values
\* (absent, 0) that !totalAmount and !paymentMethodId treat alike.
CheckoutBody(given, cart, total, method) ==
  [itemsGiven |-> given, items |-> cart, totalAmount |-> total, paymentMethodId |-> method]

CheckoutBodies ==
  {CheckoutBody(TRUE, c, 10, 1) : c \in Carts}
    \cup {CheckoutBody(FALSE, <<>>, 10, 1)}
    \cup {CheckoutBody(TRUE, c, 0, 1) : c \in {k \in Carts : Len(k) = 1 /\ k[1].quantity = 1}}
    \cup {CheckoutBody(TRUE, c, 10, 0) : c \in {k \in Carts : Len(k) = 1 /\ k[1].quantity = 1}}

\* ------------------------------------------------------------------- state

VARIABLES
  games,        \* table games: rows [game_id, title]
  inventory,    \* table inventory: game_id -> stock_quantity, for the games that have a row
  orders,       \* table orders (committed rows)
  order_items,  \* table order_items (committed rows)
  payments,     \* table payments (committed rows)
  identity,     \* the identity counters of the tables (never rolled back)
  coPc,         \* checkout request -> position in the handler
  coBody,       \* checkout request -> req.body
  coTx,         \* checkout request -> its sql.Transaction and write set
  coOrderId,    \* checkout request -> orderId (0 before the order insert)
  coIdx,        \* checkout request -> index of the next cart line to insert
  coResp,       \* checkout request -> the response sent
  coSeen,       \* checkout request -> the game ids in the catalog when its check ran
  delPc,        \* delete request -> position in the handler
  delId,        \* delete request -> req.params.id
  delTx,        \* delete request -> its sql.Transaction and write set
  delResp,      \* delete request -> the response sent
  delOrders,    \* delete request -> the orders whose items its DELETE removed
  ordersResp,   \* the last answer of GET /api/orders
  activeRequests, \* the Set activeRequests of server.js
  cgPc,         \* create-game request -> position in the handler
  cgReq,        \* create-game request -> requestId and req.body
  cgTx,         \* create-game request -> its sql.Transaction and write set
  cgResp,       \* create-game request -> the response sent
  cgOverlap,    \* create-game request -> requests with its requestId in flight when it arrived
  upPc,         \* update-game request -> position in the handler
  upReq,        \* update-game request -> req.params.id and req.body
  upResp,       \* update-game request -> the response sent
  users,        \* table users
  regPc,        \* register request -> position in the handler
  regBody,      \* register request -> req.body
  regResp       \* register request -> the response sent

dbVars == <<games, inventory, orders, order_items, payments, identity>>
coVars == <<coPc, coBody, coTx, coOrderId, coIdx, coResp, coSeen>>
delVars == <<delPc, delId, delTx, delResp, delOrders>>
catVars == <<activeRequests, cgPc, cgReq, cgTx, cgResp, cgOverlap, upPc, upReq, upResp>>
authVars == <<users, regPc, regBody, regResp>>
vars == <<dbVars, coVars, delVars, ordersResp, catVars, authVars>>

\* ---------------------------------------------------------------- responses

Resp(status, message) == [status |-> status, message |-> message]
NoResp == Resp(0, "")
MissingFields == Resp(400, "Missing required fields.")
InvalidGameIds == Resp(400, "One or more game IDs are invalid.")
CheckoutOk == Resp(200, "success")
CheckoutError == Resp(500, "err.message")
GameDeleted == Resp(200, "Game deleted successfully.")
GameNotFound == Resp(404, "Game not found.")
DeleteFailed == Resp(500, "Failed to delete game.")

\* ------------------------------------------------------------------ schema

GameIds == {g.game_id : g \in games}

NoTx == [state |-> "none", orders |-> {}, items |-> {}, payments |-> {},
         dec |-> [g \in DOMAIN inventory |-> 0]]

\* The rows an open checkout transaction has written and not yet committed.
OpenItems(r) == IF coTx[r].state = "open" THEN coTx[r].items ELSE {}

\* A trigger that takes one unit per inserted row, whatever its quantity.
TrgUpdateInventoryByOne(dec, inserted) ==
  [g \in DOMAIN dec |-> IF g = inserted.game_id THEN dec[g] + 1 ELSE dec[g]]

\* trg_update_inventory_after_order: after an insert into order_items, the
\* inventory row of the inserted game, if there is one, loses the quantity.
TrgUpdateInventory(dec, inserted) ==
  [g \in DOMAIN dec |-> IF g = inserted.game_id THEN dec[g] + inserted.quantity ELSE dec[g]]

\* A delete transaction holds the row of the game it deleted until it ends.
GameRowLocked(id) == \E d \in DeleteReqs : delPc[d] = "commit" /\ delId[d] = id

\* The trigger's update locks the inventory row until the transaction ends.
InventoryRowLocked(r, id) ==
  /\ id \in DOMAIN inventory
  /\ \E o \in CheckoutReqs \ {r} : \E it \in OpenItems(o) : it.game_id = id

\* ------------------------------------------------------------------- Init

Init ==
  /\ games = {[game_id |-> 1, title |-> "Doom"], [game_id |-> 2, title |-> "Quake"]}
  /\ inventory = [g \in {1} |-> InitStock]
  /\ orders = {}
  /\ order_items = {}
  /\ payments = {}
  /\ identity = [games |-> 2, orders |-> 0, order_items |-> 0, payments |-> 0, users |-> 0]
  /\ coPc = [r \in CheckoutReqs |-> "idle"]
  /\ coBody = [r \in CheckoutReqs |-> CheckoutBody(FALSE, <<>>, 0, 0)]
  /\ coTx = [r \in CheckoutReqs |-> NoTx]
  /\ coOrderId = [r \in CheckoutReqs |-> 0]
  /\ coIdx = [r \in CheckoutReqs |-> 1]
  /\ coResp = [r \in CheckoutReqs |-> NoResp]
  /\ coSeen = [r \in CheckoutReqs |-> [checked |-> FALSE, ids |-> {}]]
  /\ delPc = [d \in DeleteReqs |-> "idle"]
  /\ delId = [d \in DeleteReqs |-> 0]
  /\ delTx = [d \in DeleteReqs |-> [state |-> "none", items |-> {}]]
  /\ delResp = [d \in DeleteReqs |-> NoResp]
  /\ delOrders = [d \in DeleteReqs |-> {}]
  /\ ordersResp = [sent |-> FALSE, recordset |-> {}, deleted |-> {}]
  /\ activeRequests = {}
  /\ cgPc = [r \in CreateReqs |-> "idle"]
  /\ cgReq = [r \in CreateReqs |-> CreateRequest("", "", FALSE)]
  /\ cgTx = [r \in CreateReqs |-> [state |-> "none", games |-> {}]]
  /\ cgResp = [r \in CreateReqs |-> NoResp]
  /\ cgOverlap = [r \in CreateReqs |-> {}]
  /\ upPc = [u \in UpdateReqs |-> "idle"]
  /\ upReq = [u \in UpdateReqs |-> [id |-> 0, title |-> ""]]
  /\ upResp = [u \in UpdateReqs |-> NoResp]
  /\ users = {}
  /\ regPc = [r \in RegisterReqs |-> "idle"]
  /\ regBody = [r \in RegisterReqs |-> RegisterBody("", "", "")]
  /\ regResp = [r \in RegisterReqs |-> NoResp]

\* ------------------------------------------------------ POST /api/checkout

\* if (!items || !totalAmount || !paymentMethodId): an empty array is truthy.
MissingRequired(body) ==
  \/ ~body.itemsGiven
  \/ body.totalAmount = 0
  \/ body.paymentMethodId = 0

\* The request arrives; the synchronous part of the handler runs.
CheckoutReceive(r) ==
  /\ coPc[r] = "idle"
  /\ \E body \in CheckoutBodies :
       /\ coBody' = [coBody EXCEPT ![r] = body]
       /\ IF MissingRequired(body)
          THEN /\ coPc' = [coPc EXCEPT ![r] = "done"]
               /\ coResp' = [coResp EXCEPT ![r] = MissingFields]
          ELSE /\ coPc' = [coPc EXCEPT ![r] = "begin"]
               /\ UNCHANGED coResp
  /\ UNCHANGED <<dbVars, coTx, coOrderId, coIdx, coSeen, delVars, ordersResp, catVars, authVars>>

\* await transaction.begin()
CheckoutBegin(r) ==
  /\ coPc[r] = "begin"
  /\ coTx' = [coTx EXCEPT ![r] = [NoTx EXCEPT !.state = "open"]]
  /\ coPc' = [coPc EXCEPT ![r] = "check"]
  /\ UNCHANGED <<dbVars, coBody, coOrderId, coIdx, coResp, coSeen, delVars, ordersResp, catVars, authVars>>

\* catch (err): await transaction.rollback(); res.status(500).  The rollback
\* of a transaction that never began rejects in its turn, and the handler
\* ends without a response.
CheckoutCatch(r) ==
  /\ coPc' = [coPc EXCEPT ![r] = "done"]
  /\ IF coTx[r].state = "open"
     THEN /\ coTx' = [coTx EXCEPT ![r] = [NoTx EXCEPT !.state = "rolledback"]]
          /\ coResp' = [coResp EXCEPT ![r] = CheckoutError]
     ELSE UNCHANGED <<coTx, coResp>>

\* items.map(item => item.game_id)
CartGameIds(items) == [i \in 1..Len(items) |-> items[i].game_id]

\* SELECT game_id FROM games WHERE game_id IN (...): one row per matching game.
GameCheckRecordset(gameIds) == {g \in GameIds : \E i \in 1..Len(gameIds) : gameIds[i] = g}

\* A check that rejects a cart only when none of its games is found.
GameIdsInvalidWhenNoneFound(gameIds) == Cardinality(GameCheckRecordset(gameIds)) = 0

\* gameCheckResult.recordset.length !== gameIds.length
GameIdsInvalid(gameIds) == Cardinality(GameCheckRecordset(gameIds)) # Len(gameIds)

\* The game-id check, run through pool.request() (outside the transaction).
\* An empty id list makes the statement "... IN ()", which SQL Server rejects.
CheckoutCheck(r) ==
  /\ coPc[r] = "check"
  /\ LET gameIds == CartGameIds(coBody[r].items)
     IN /\ \A i \in 1..Len(gameIds) : ~GameRowLocked(gameIds[i])
        /\ IF Len(gameIds) = 0
           THEN /\ CheckoutCatch(r)
                /\ UNCHANGED coSeen
           ELSE /\ coSeen' = [coSeen EXCEPT ![r] = [checked |-> TRUE, ids |-> GameIds]]
                /\ IF GameIdsInvalid(gameIds)
                   THEN /\ coPc' = [coPc EXCEPT ![r] = "done"]
                        /\ coResp' = [coResp EXCEPT ![r] = InvalidGameIds]
                        /\ UNCHANGED coTx
                   ELSE /\ coPc' = [coPc EXCEPT ![r] = "order"]
                        /\ UNCHANGED <<coTx, coResp>>
  /\ UNCHANGED <<dbVars, coBody, coOrderId, coIdx, delVars, ordersResp, catVars, authVars>>

\* The order insert run through pool.request(), as the game-id check is: the
\* row is committed at once, outside the transaction.
CheckoutInsertOrderAutoCommit(r) ==
  /\ coPc[r] = "order"
  /\ LET id == identity.orders + 1
         row == [order_id |-> id, total_amount |-> coBody[r].totalAmount, status_id |-> 1]
     IN /\ identity' = [identity EXCEPT !.orders = id]
        /\ orders' = orders \cup {row}
        /\ coOrderId' = [coOrderId EXCEPT ![r] = id]
  /\ coIdx' = [coIdx EXCEPT ![r] = 1]
  /\ coPc' = [coPc EXCEPT ![r] = IF Len(coBody[r].items) = 0 THEN "payment" ELSE "items"]
  /\ UNCHANGED <<games, inventory, order_items, payments, coBody, coTx, coResp, coSeen,
                 delVars, ordersResp, catVars, authVars>>

\* 1) INSERT INTO orders ...; SELECT SCOPE_IDENTITY() AS orderId
CheckoutInsertOrder(r) ==
  /\ coPc[r] = "order"
  /\ LET id == identity.orders + 1
         row == [order_id |-> id, total_amount |-> coBody[r].totalAmount, status_id |-> 1]
     IN /\ identity' = [identity EXCEPT !.orders = id]
        /\ coTx' = [coTx EXCEPT ![r].orders = @ \cup {row}]
        /\ coOrderId' = [coOrderId EXCEPT ![r] = id]
  /\ coIdx' = [coIdx EXCEPT ![r] = 1]
  /\ coPc' = [coPc EXCEPT ![r] = IF Len(coBody[r].items) = 0 THEN "payment" ELSE "items"]
  /\ UNCHANGED <<games, inventory, orders, order_items, payments, coBody, coResp, coSeen, delVars, ordersResp, catVars, authVars>>

\* 2) one iteration of for (let item of items): INSERT INTO order_items ...
\* The foreign key to games is checked, then the inventory trigger fires.
CheckoutInsertItem(r) ==
  /\ coPc[r] = "items"
  /\ LET item == coBody[r].items[coIdx[r]]
         id == identity.order_items + 1
         row == [order_item_id |-> id, order_id |-> coOrderId[r], game_id |-> item.game_id,
                 quantity |-> item.quantity, price |-> item.price]
     IN /\ ~GameRowLocked(item.game_id)
        /\ IF item.game_id \notin GameIds
           THEN /\ CheckoutCatch(r)
                /\ UNCHANGED <<identity, coIdx>>
           ELSE /\ ~InventoryRowLocked(r, item.game_id)
                /\ identity' = [identity EXCEPT !.order_items = id]
                /\ coTx' = [coTx EXCEPT ![r].items = @ \cup {row},
                                        ![r].dec = TrgUpdateInventory(@, row)]
                /\ coIdx' = [coIdx EXCEPT ![r] = @ + 1]
                /\ coPc' = [coPc EXCEPT ![r] =
                              IF coIdx[r] = Len(coBody[r].items) THEN "payment" ELSE "items"]
                /\ UNCHANGED coResp
  /\ UNCHANGED <<games, inventory, orders, order_items, payments, coBody, coOrderId, coSeen, delVars, ordersResp, catVars, authVars>>

\* 3) INSERT INTO payments (order_id, status_id, method_id)
CheckoutInsertPayment(r) ==
  /\ coPc[r] = "payment"
  /\ LET id == identity.payments + 1
         row == [payment_id |-> id, order_id |-> coOrderId[r], status_id |-> 1,
                 method_id |-> coBody[r].paymentMethodId]
     IN /\ identity' = [identity EXCEPT !.payments = id]
        /\ coTx' = [coTx EXCEPT ![r].payments = @ \cup {row}]
  /\ coPc' = [coPc EXCEPT ![r] = "commit"]
  /\ UNCHANGED <<games, inventory, orders, order_items, payments, coBody, coOrderId, coIdx,
                 coResp, coSeen, delVars, ordersResp, catVars, authVars>>

\* await transaction.commit(); res.json({ success: true, orderId })
CheckoutCommit(r) ==
  /\ coPc[r] = "commit"
  /\ orders' = orders \cup coTx[r].orders
  /\ order_items' = order_items \cup coTx[r].items
  /\ payments' = payments \cup coTx[r].payments
  /\ inventory' = [g \in DOMAIN inventory |-> inventory[g] - coTx[r].dec[g]]
  /\ coTx' = [coTx EXCEPT ![r] = [NoTx EXCEPT !.state = "committed"]]
  /\ coPc' = [coPc EXCEPT ![r] = "done"]
  /\ coResp' = [coResp EXCEPT ![r] = CheckoutOk]
  /\ UNCHANGED <<games, identity, coBody, coOrderId, coIdx, coSeen, delVars, ordersResp, catVars, authVars>>

\* Any awaited database call of the try block can reject (a lost connection,
\* a deadlock victim, a foreign key such as payments.method_id, a driver that
\* refuses the second tr.input('order_id_item', ...) of a cart of several
\* lines because tr is one request object): control passes to the catch block.
CheckoutDbError(r) ==
  /\ coPc[r] \in {"begin", "check", "order", "items", "payment", "commit"}
  /\ CheckoutCatch(r)
  /\ UNCHANGED <<dbVars, coBody, coOrderId, coIdx, coSeen, delVars, ordersResp, catVars, authVars>>

\* --------------------------------------------------- DELETE /api/games/:id

\* The request arrives; await transaction.begin()
DeleteReceive(d) ==
  /\ delPc[d] = "idle"
  /\ \E id \in AdminGameRefs : delId' = [delId EXCEPT ![d] = id]
  /\ delTx' = [delTx EXCEPT ![d] = [state |-> "open", items |-> {}]]
  /\ delPc' = [delPc EXCEPT ![d] = "items"]
  /\ UNCHANGED <<dbVars, coVars, delResp, delOrders, ordersResp, catVars, authVars>>

\* DELETE FROM order_items WHERE game_id = @game_id
DeleteOrderItems(d) ==
  /\ delPc[d] = "items"
  /\ \A r \in CheckoutReqs : \A it \in OpenItems(r) : it.game_id # delId[d]
  /\ delTx' = [delTx EXCEPT ![d].items = {it \in order_items : it.game_id = delId[d]}]
  /\ delPc' = [delPc EXCEPT ![d] = "game"]
  /\ UNCHANGED <<dbVars, coVars, delId, delResp, delOrders, ordersResp, catVars, authVars>>

\* Rows of other tables that still reference the game: the foreign keys of
\* inventory and order_items have no ON DELETE action, so they forbid the delete.
GameReferenced(d) ==
  \/ delId[d] \in DOMAIN inventory
  \/ \E it \in order_items \ delTx[d].items : it.game_id = delId[d]

\* DELETE FROM games WHERE game_id = @game_id, then the rowsAffected test.
DeleteGameRow(d) ==
  /\ delPc[d] = "game"
  /\ \A r \in CheckoutReqs : \A it \in OpenItems(r) : it.game_id # delId[d]
  /\ IF delId[d] \notin GameIds
     THEN /\ delTx' = [delTx EXCEPT ![d] = [state |-> "rolledback", items |-> {}]]
          /\ delPc' = [delPc EXCEPT ![d] = "done"]
          /\ delResp' = [delResp EXCEPT ![d] = GameNotFound]
     ELSE IF GameReferenced(d)
     THEN /\ delTx' = [delTx EXCEPT ![d] = [state |-> "rolledback", items |-> {}]]
          /\ delPc' = [delPc EXCEPT ![d] = "done"]
          /\ delResp' = [delResp EXCEPT ![d] = DeleteFailed]
     ELSE /\ delPc' = [delPc EXCEPT ![d] = "commit"]
          /\ UNCHANGED <<delTx, delResp>>
  /\ UNCHANGED <<dbVars, coVars, delId, delOrders, ordersResp, catVars, authVars>>

\* await transaction.commit(); res.json({ success: true, ... })
DeleteCommit(d) ==
  /\ delPc[d] = "commit"
  /\ order_items' = order_items \ delTx[d].items
  /\ games' = {g \in games : g.game_id # delId[d]}
  /\ delTx' = [delTx EXCEPT ![d] = [state |-> "committed", items |-> {}]]
  /\ delPc' = [delPc EXCEPT ![d] = "done"]
  /\ delResp' = [delResp EXCEPT ![d] = GameDeleted]
  /\ delOrders' = [delOrders EXCEPT ![d] = {it.order_id : it \in delTx[d].items}]
  /\ UNCHANGED <<inventory, orders, payments, identity, coVars, delId, ordersResp, catVars, authVars>>

\* ------------------------------------------------------- GET /api/orders

NullId == 0

\* The rows of orders LEFT JOIN order_items LEFT JOIN games for one order,
\* with ISNULL(g.title, 'Deleted Game') AS game_title.
OrderRows(o) ==
  LET its == {it \in order_items : it.order_id = o.order_id}
      TitleOf(id) == IF id \in GameIds
                     THEN (CHOOSE g \in games : g.game_id = id).title
                     ELSE "Deleted Game"
  IN IF its = {}
     THEN {[order_id |-> o.order_id, total_amount |-> o.total_amount,
            order_item_id |-> NullId, game_title |-> "Deleted Game",
            quantity |-> NullId, price |-> NullId]}
     ELSE {[order_id |-> o.order_id, total_amount |-> o.total_amount,
            order_item_id |-> it.order_item_id, game_title |-> TitleOf(it.game_id),
            quantity |-> it.quantity, price |-> it.price] : it \in its}

\* The recordset of the query of GET /api/orders over the committed rows.
OrdersReport == UNION {OrderRows(o) : o \in orders}

\* The query is one statement, read here from the committed rows at one
\* instant; "deleted" records which delete requests had been answered with
\* success when it ran.
GetOrders ==
  /\ ordersResp' = [sent |-> TRUE, recordset |-> OrdersReport,
                    deleted |-> {d \in DeleteReqs : delResp[d] = GameDeleted}]
  /\ UNCHANGED <<dbVars, coVars, delVars, catVars, authVars>>

\* ------------------------------------------------------- POST /api/games

DuplicateRequest == Resp(400, "Duplicate request detected.")
FieldsRequired == Resp(400, "All fields are required, including an image.")
TitleExists == Resp(400, "Game with this title already exists.")
GameAdded == Resp(200, "Game added successfully.")
AddFailed == Resp(500, "Failed to add game.")

\* req.headers['x-request-id'] || uuidv4(): a generated id is unique.
RequestId(r) == IF cgReq[r].header = "" THEN <<"uuid", r>> ELSE <<"header", cgReq[r].header>>
RequestIdOf(r, req) == IF req.header = "" THEN <<"uuid", r>> ELSE <<"header", req.header>>

\* The positions at which a create-game request is between its
\* activeRequests.add and its finally block.
CreateInFlight == {"begin", "select", "insert", "commit",
                   "rollbackFields", "rollbackTitle", "rollbackError"}

\* A handler that tests activeRequests and never adds the request's id to it.
CreateReceiveWithoutAdd(r) ==
  /\ cgPc[r] = "idle"
  /\ \E header \in RequestIdHeaders, title \in Titles \cup {""}, rest \in BOOLEAN :
       LET req == CreateRequest(header, title, rest)
           requestId == RequestIdOf(r, req)
       IN /\ cgReq' = [cgReq EXCEPT ![r] = req]
          /\ cgOverlap' = [cgOverlap EXCEPT ![r] =
               {o \in CreateReqs \ {r} : cgPc[o] \in CreateInFlight
                                          /\ RequestId(o) = requestId}]
          /\ IF requestId \in activeRequests
             THEN /\ cgResp' = [cgResp EXCEPT ![r] = DuplicateRequest]
                  /\ cgPc' = [cgPc EXCEPT ![r] = "done"]
             ELSE /\ cgPc' = [cgPc EXCEPT ![r] = "begin"]
                  /\ UNCHANGED cgResp
          /\ UNCHANGED activeRequests
  /\ UNCHANGED <<dbVars, coVars, delVars, ordersResp, cgTx, upPc, upReq, upResp, authVars>>

\* The handler is entered (validateAdmin and upload.single have passed): the
\* duplicate check and activeRequests.add run in one synchronous stretch.
CreateReceive(r) ==
  /\ cgPc[r] = "idle"
  /\ \E header \in RequestIdHeaders, title \in Titles \cup {""}, rest \in BOOLEAN :
       LET req == CreateRequest(header, title, rest)
           requestId == RequestIdOf(r, req)
       IN /\ cgReq' = [cgReq EXCEPT ![r] = req]
          /\ cgOverlap' = [cgOverlap EXCEPT ![r] =
               {o \in CreateReqs \ {r} : cgPc[o] \in CreateInFlight
                                          /\ RequestId(o) = requestId}]
          /\ IF requestId \in activeRequests
             THEN /\ cgResp' = [cgResp EXCEPT ![r] = DuplicateRequest]
                  /\ cgPc' = [cgPc EXCEPT ![r] = "done"]
                  /\ UNCHANGED activeRequests
             ELSE /\ activeRequests' = activeRequests \cup {requestId}
                  /\ cgPc' = [cgPc EXCEPT ![r] = "begin"]
                  /\ UNCHANGED cgResp
  /\ UNCHANGED <<dbVars, coVars, delVars, ordersResp, cgTx, upPc, upReq, upResp, authVars>>

\* await transaction.begin(), then the test of the required fields.
CreateBegin(r) ==
  /\ cgPc[r] = "begin"
  /\ cgTx' = [cgTx EXCEPT ![r] = [state |-> "open", games |-> {}]]
  /\ cgPc' = [cgPc EXCEPT ![r] =
                IF cgReq[r].title = "" \/ ~cgReq[r].rest THEN "rollbackFields" ELSE "select"]
  /\ UNCHANGED <<dbVars, coVars, delVars, ordersResp, activeRequests, cgReq, cgResp, cgOverlap,
                 upPc, upReq, upResp, authVars>>

\* A game row another open transaction has inserted and not committed.
UncommittedGames(r) ==
  UNION {cgTx[o].games : o \in {x \in CreateReqs \ {r} : cgTx[x].state = "open"}}

\* SELECT 1 FROM games WHERE title = @title, and the test of its recordset.
\* The scan waits for rows another transaction has inserted and not committed.
CreateSelect(r) ==
  /\ cgPc[r] = "select"
  /\ UncommittedGames(r) = {}
  /\ cgPc' = [cgPc EXCEPT ![r] =
                IF \E g \in games : g.title = cgReq[r].title THEN "rollbackTitle" ELSE "insert"]
  /\ UNCHANGED <<dbVars, coVars, delVars, ordersResp, activeRequests, cgReq, cgTx, cgResp,
                 cgOverlap, upPc, upReq, upResp, authVars>>

\* INSERT INTO games (...): the table has no unique constraint on title.
CreateInsert(r) ==
  /\ cgPc[r] = "insert"
  /\ LET id == identity.games + 1
     IN /\ identity' = [identity EXCEPT !.games = id]
        /\ cgTx' = [cgTx EXCEPT ![r].games = @ \cup {[game_id |-> id, title |-> cgReq[r].title]}]
  /\ cgPc' = [cgPc EXCEPT ![r] = "commit"]
  /\ UNCHANGED <<games, inventory, orders, order_items, payments, coVars, delVars, ordersResp,
                 activeRequests, cgReq, cgResp, cgOverlap, upPc, upReq, upResp, authVars>>

\* await transaction.commit(); res.json(...); finally activeRequests.delete
CreateCommit(r) ==
  /\ cgPc[r] = "commit"
  /\ games' = games \cup cgTx[r].games
  /\ cgTx' = [cgTx EXCEPT ![r] = [state |-> "committed", games |-> {}]]
  /\ cgResp' = [cgResp EXCEPT ![r] = GameAdded]
  /\ cgPc' = [cgPc EXCEPT ![r] = "done"]
  /\ activeRequests' = activeRequests \ {RequestId(r)}
  /\ UNCHANGED <<inventory, orders, order_items, payments, identity, coVars, delVars, ordersResp,
                 cgReq, cgOverlap, upPc, upReq, upResp, authVars>>

\* await transaction.rollback(); the response of the branch; finally
\* activeRequests.delete.  The rollback of a transaction that never began
\* rejects: no response is sent, and the finally block still runs.
CreateRollback(r) ==
  /\ cgPc[r] \in {"rollbackFields", "rollbackTitle", "rollbackError"}
  /\ IF cgTx[r].state = "open"
     THEN /\ cgTx' = [cgTx EXCEPT ![r] = [state |-> "rolledback", games |-> {}]]
          /\ cgResp' = [cgResp EXCEPT ![r] =
                          CASE cgPc[r] = "rollbackFields" -> FieldsRequired
                            [] cgPc[r] = "rollbackTitle" -> TitleExists
                            [] OTHER -> AddFailed]
     ELSE UNCHANGED <<cgTx, cgResp>>
  /\ cgPc' = [cgPc EXCEPT ![r] = "done"]
  /\ activeRequests' = activeRequests \ {RequestId(r)}
  /\ UNCHANGED <<dbVars, coVars, delVars, ordersResp, cgReq, cgOverlap, upPc, upReq, upResp,
                 authVars>>

\* An awaited database call of the try block rejects: control passes to catch.
CreateDbError(r) ==
  /\ cgPc[r] \in {"begin", "select", "insert", "commit"}
  /\ cgPc' = [cgPc EXCEPT ![r] = "rollbackError"]
  /\ UNCHANGED <<dbVars, coVars, delVars, ordersResp, activeRequests, cgReq, cgTx, cgResp,
                 cgOverlap, upPc, upReq, upResp, authVars>>

\* ---------------------------------------------------- PUT /api/games/:id

UpdateFieldsRequired == Resp(400, "All fields are required.")
GameUpdated == Resp(200, "Game updated successfully.")

\* The request arrives: if (!title || !price || !description)
UpdateReceive(u) ==
  /\ upPc[u] = "idle"
  /\ \E id \in AdminGameRefs, title \in Titles \cup {""} :
       /\ upReq' = [upReq EXCEPT ![u] = [id |-> id, title |-> title]]
       /\ IF title = ""
          THEN /\ upResp' = [upResp EXCEPT ![u] = UpdateFieldsRequired]
               /\ upPc' = [upPc EXCEPT ![u] = "done"]
          ELSE /\ upPc' = [upPc EXCEPT ![u] = "update"]
               /\ UNCHANGED upResp
  /\ UNCHANGED <<dbVars, coVars, delVars, ordersResp, activeRequests, cgPc, cgReq, cgTx, cgResp,
                 cgOverlap, authVars>>

\* UPDATE games SET title = @title, ... WHERE game_id = @id, run through
\* pool.request(), then the rowsAffected test.
UpdateGame(u) ==
  /\ upPc[u] = "update"
  /\ IF upReq[u].id \in GameIds
     THEN /\ games' = {IF g.game_id = upReq[u].id THEN [g EXCEPT !.title = upReq[u].title] ELSE g
                       : g \in games}
          /\ upResp' = [upResp EXCEPT ![u] = GameUpdated]
     ELSE /\ upResp' = [upResp EXCEPT ![u] = GameNotFound]
          /\ UNCHANGED games
  /\ upPc' = [upPc EXCEPT ![u] = "done"]
  /\ UNCHANGED <<inventory, orders, order_items, payments, identity, coVars, delVars, ordersResp,
                 activeRequests, cgPc, cgReq, cgTx, cgResp, cgOverlap, upReq, authVars>>

\* ------------------------------------------------------ POST /api/register

RegisterFieldsRequired == Resp(200, "All fields are required.")
EmailRegistered == Resp(200, "Email is already registered.")
RegistrationOk == Resp(200, "Registration successful.")
RegistrationError == Resp(500, "Server error during registration.")

\* The request arrives: if (!username || !email || !password || !role)
RegisterReceive(r) ==
  /\ regPc[r] = "idle"
  /\ \E credentials \in {"", "given"}, email \in Emails, role \in Roles \cup {""} :
       LET body == RegisterBody(credentials, email, role)
       IN /\ regBody' = [regBody EXCEPT ![r] = body]
          /\ IF credentials = "" \/ email = "" \/ role = ""
             THEN /\ regResp' = [regResp EXCEPT ![r] = RegisterFieldsRequired]
                  /\ regPc' = [regPc EXCEPT ![r] = "done"]
             ELSE /\ regPc' = [regPc EXCEPT ![r] = "check"]
                  /\ UNCHANGED regResp
  /\ UNCHANGED <<dbVars, coVars, delVars, ordersResp, catVars, users>>

\* SELECT 1 FROM users WHERE email = @email, and the test of its recordset.
RegisterCheck(r) ==
  /\ regPc[r] = "check"
  /\ IF \E u \in users : u.email = regBody[r].email
     THEN /\ regResp' = [regResp EXCEPT ![r] = EmailRegistered]
          /\ regPc' = [regPc EXCEPT ![r] = "done"]
     ELSE /\ regPc' = [regPc EXCEPT ![r] = "hash"]
          /\ UNCHANGED regResp
  /\ UNCHANGED <<dbVars, coVars, delVars, ordersResp, catVars, users, regBody>>

\* await bcrypt.hash(password, 10)
RegisterHash(r) ==
  /\ regPc[r] = "hash"
  /\ regPc' = [regPc EXCEPT ![r] = "insert"]
  /\ UNCHANGED <<dbVars, coVars, delVars, ordersResp, catVars, users, regBody, regResp>>

\* role === 'admin' ? 2 : 1
RoleId(role) == IF role = "admin" THEN 2 ELSE 1

\* INSERT INTO users (...), run through pool.request(): users.email is
\* unique, and a violation rejects the call, which the catch block answers.
RegisterInsert(r) ==
  /\ regPc[r] = "insert"
  /\ IF \E u \in users : u.email = regBody[r].email
     THEN /\ regResp' = [regResp EXCEPT ![r] = RegistrationError]
          /\ UNCHANGED <<users, identity>>
     ELSE /\ identity' = [identity EXCEPT !.users = @ + 1]
          /\ users' = users \cup {[user_id |-> identity.users + 1, email |-> regBody[r].email,
                                   role_id |-> RoleId(regBody[r].role)]}
          /\ regResp' = [regResp EXCEPT ![r] = RegistrationOk]
  /\ regPc' = [regPc EXCEPT ![r] = "done"]
  /\ UNCHANGED <<games, inventory, orders, order_items, payments, coVars, delVars, ordersResp,
                 catVars, regBody>>

\* ------------------------------------------------------------------- Spec

Next ==
  \/ \E r \in CheckoutReqs : CheckoutReceive(r)
  \/ \E r \in CheckoutReqs : CheckoutBegin(r)
  \/ \E r \in CheckoutReqs : CheckoutCheck(r)
  \/ \E r \in CheckoutReqs : CheckoutInsertOrder(r)
  \/ \E r \in CheckoutReqs : CheckoutInsertItem(r)
  \/ \E r \in CheckoutReqs : CheckoutInsertPayment(r)
  \/ \E r \in CheckoutReqs : CheckoutCommit(r)
  \/ \E r \in CheckoutReqs : CheckoutDbError(r)
  \/ \E d \in DeleteReqs : DeleteReceive(d)
  \/ \E d \in DeleteReqs : DeleteOrderItems(d)
  \/ \E d \in DeleteReqs : DeleteGameRow(d)
  \/ \E d \in DeleteReqs : DeleteCommit(d)

Spec == Init /\ [][Next]_vars

\* The order report beside one checkout and one game deletion.
NextOrders ==
  \/ CheckoutReceive("c1")
  \/ CheckoutBegin("c1")
  \/ CheckoutCheck("c1")
  \/ CheckoutInsertOrder("c1")
  \/ CheckoutInsertItem("c1")
  \/ CheckoutInsertPayment("c1")
  \/ CheckoutCommit("c1")
  \/ \E d \in DeleteReqs : DeleteReceive(d)
  \/ \E d \in DeleteReqs : DeleteOrderItems(d)
  \/ \E d \in DeleteReqs : DeleteGameRow(d)
  \/ \E d \in DeleteReqs : DeleteCommit(d)
  \/ GetOrders

SpecOrders == Init /\ [][NextOrders]_vars

\* The catalog's admin requests.
NextCatalog ==
  \/ \E r \in CreateReqs : CreateReceive(r)
  \/ \E r \in CreateReqs : CreateBegin(r)
  \/ \E r \in CreateReqs : CreateSelect(r)
  \/ \E r \in CreateReqs : CreateInsert(r)
  \/ \E r \in CreateReqs : CreateCommit(r)
  \/ \E r \in CreateReqs : CreateRollback(r)
  \/ \E r \in CreateReqs : CreateDbError(r)
  \/ \E u \in UpdateReqs : UpdateReceive(u)
  \/ \E u \in UpdateReqs : UpdateGame(u)

SpecCatalog == Init /\ [][NextCatalog]_vars

\* Registration.
NextAuth ==
  \/ \E r \in RegisterReqs : RegisterReceive(r)
  \/ \E r \in RegisterReqs : RegisterCheck(r)
  \/ \E r \in RegisterReqs : RegisterHash(r)
  \/ \E r \in RegisterReqs : RegisterInsert(r)

SpecAuth == Init /\ [][NextAuth]_vars

\* ----------------------------------------------------------------- claims

\* The quantity a cart asks of game g, over all its lines.
RECURSIVE CartQuantity(_, _)
CartQuantity(items, g) ==
  IF Len(items) = 0 THEN 0
  ELSE (IF Head(items).game_id = g THEN Head(items).quantity ELSE 0)
         + CartQuantity(Tail(items), g)

\* The number of lines of a cart that are equal to line l.
LinesEqual(items, l) == Cardinality({i \in 1..Len(items) : items[i] = l})

\* What an order_items row holds of a cart line.
LineOf(it) == [game_id |-> it.game_id, quantity |-> it.quantity, price |-> it.price]

RowsOf(r) ==
  {o \in orders : o.order_id = coOrderId[r]}
    \cup {it \in order_items : it.order_id = coOrderId[r]}
    \cup {p \in payments : p.order_id = coOrderId[r]}

\* The checkouts answered with success.
Succeeded == {r \in CheckoutReqs : coResp[r] = CheckoutOk}

RECURSIVE SoldTo(_, _)
SoldTo(rs, g) ==
  IF rs = {} THEN 0
  ELSE LET r == CHOOSE x \in rs : TRUE
       IN CartQuantity(coBody[r].items, g) + SoldTo(rs \ {r}, g)

\* C2: a checkout that is in progress or has failed has no order, item or
\* payment row in the store, the order report shows no row of it, and the
\* stock counts only the checkouts that succeeded; the step at which a
\* checkout fails after its order insert rolls its transaction back and
\* leaves the store as it was.
C2_CheckoutAllOrNothing ==
  /\ [](\A r \in CheckoutReqs :
          (coOrderId[r] # 0 /\ coResp[r] # CheckoutOk) =>
            /\ RowsOf(r) = {}
            /\ \A row \in OrdersReport : row.order_id # coOrderId[r])
  /\ [](\A g \in DOMAIN inventory : inventory[g] = InitStock - SoldTo(Succeeded, g))
  /\ [][\A r \in CheckoutReqs :
          (coOrderId[r] # 0 /\ coResp[r] = NoResp /\ coResp'[r] = CheckoutError) =>
            /\ coTx'[r].state = "rolledback"
            /\ coTx'[r].orders = {} /\ coTx'[r].items = {} /\ coTx'[r].payments = {}
            /\ <<orders, order_items, payments, inventory>>' =
                 <<orders, order_items, payments, inventory>>
     ]_vars

\* A checkout failed after inserting its order and an item of the stocked
\* game, while the other checkout succeeded.
C2_Witness ==
  \E r \in CheckoutReqs, o \in CheckoutReqs :
    /\ coResp[r] = CheckoutError
    /\ coOrderId[r] # 0
    /\ coIdx[r] > 1
    /\ coBody[r].items[1].game_id = 1
    /\ coResp[o] = CheckoutOk

\* C3: a checkout whose cart names a game that is not in the catalog when
\* its check runs is answered 400 'One or more game IDs are invalid.', and
\* has inserted no order, item or payment and taken nothing from the stock.
C3_MissingGameRejected ==
  \A r \in CheckoutReqs :
    (coSeen[r].checked
       /\ \E i \in 1..Len(coBody[r].items) : coBody[r].items[i].game_id \notin coSeen[r].ids) =>
      /\ coResp[r] = InvalidGameIds
      /\ coOrderId[r] = 0
      /\ coTx[r].orders = {} /\ coTx[r].items = {} /\ coTx[r].payments = {}
      /\ \A g \in DOMAIN inventory : coTx[r].dec[g] = 0

\* A cart of a game in the catalog and a deleted game has been rejected.
C3_Witness ==
  \E r \in CheckoutReqs :
    /\ coSeen[r].checked
    /\ coResp[r] = InvalidGameIds
    /\ Len(coBody[r].items) = 2
    /\ coBody[r].items[1].game_id \in coSeen[r].ids
    /\ coBody[r].items[2].game_id \notin coSeen[r].ids

\* C4: a checkout request with no items, an empty items list, no total
\* amount or no payment method is answered 400 'Missing required fields.'
\* at once: it never begins a transaction and is never answered 500.
C4_ValidationRejects ==
  \A r \in CheckoutReqs :
    (coPc[r] # "idle"
       /\ (\/ ~coBody[r].itemsGiven
           \/ Len(coBody[r].items) = 0
           \/ coBody[r].totalAmount = 0
           \/ coBody[r].paymentMethodId = 0)) =>
      /\ coPc[r] = "done"
      /\ coResp[r] = MissingFields
      /\ coTx[r].state = "none"

\* C9: a checkout whose cart lines all name games that are in the catalog
\* when its check runs is not answered 'One or more game IDs are invalid.'.
C9_ExistingGamesAccepted ==
  \A r \in CheckoutReqs :
    (coSeen[r].checked
       /\ \A i \in 1..Len(coBody[r].items) : coBody[r].items[i].game_id \in coSeen[r].ids) =>
      coResp[r] # InvalidGameIds

\* C10: a checkout that has been answered holds no open transaction; in
\* particular not when the answer is 'One or more game IDs are invalid.'.
C10_NoOpenTransactionAfterResponse ==
  \A r \in CheckoutReqs : coResp[r] # NoResp => coTx[r].state # "open"

\* C5: a create-game request that arrives while another request with the
\* same x-request-id is in flight is answered 400 'Duplicate request
\* detected.' and begins no transaction, so that at most one of the two adds
\* a game; no two requests in flight ever hold the same request id.
C5_DuplicateRequestRejected ==
  /\ \A r \in CreateReqs :
       cgOverlap[r] # {} =>
         /\ cgResp[r] = DuplicateRequest
         /\ cgTx[r].state = "none"
  /\ \A r \in CreateReqs, o \in CreateReqs :
       (r # o /\ cgPc[r] \in CreateInFlight /\ cgPc[o] \in CreateInFlight) =>
         RequestId(r) # RequestId(o)

\* A request was rejected as a duplicate of one that went on to add its game.
C5_Witness ==
  \E r \in CreateReqs :
    /\ cgResp[r] = DuplicateRequest
    /\ \E o \in cgOverlap[r] : cgResp[o] = GameAdded /\ cgReq[o].header = cgReq[r].header

\* C6: no two games of the catalog have the same title.
C6_TitlesUnique ==
  \A g \in games, h \in games : g.title = h.title => g = h

\* C7: when two registrations with the same email and all fields present
\* have both ended, one users row holds that email, one of the two was
\* answered 'Registration successful.' and the other 'Email is already
\* registered.'.
C7_SecondRegistrationConflicts ==
  \A r \in RegisterReqs, o \in RegisterReqs :
    (/\ r # o
     /\ regPc[r] = "done" /\ regPc[o] = "done"
     /\ regBody[r].email = regBody[o].email
     /\ \A x \in {r, o} : regBody[x].credentials # "" /\ regBody[x].email # ""
                          /\ regBody[x].role # "") =>
      /\ Cardinality({u \in users : u.email = regBody[r].email}) = 1
      /\ \/ regResp[r] = RegistrationOk /\ regResp[o] = EmailRegistered
         \/ regResp[o] = RegistrationOk /\ regResp[r] = EmailRegistered

\* C8: a DELETE of a game of the catalog removes it, a DELETE of an absent
\* id is answered 404; after a successful DELETE no order item names the
\* game, and an order report taken afterwards shows every order that held
\* the game with the title 'Deleted Game'.
C8_DeleteGameCascades ==
  /\ \A d \in DeleteReqs :
       delPc[d] = "done" =>
         /\ delResp[d] \in {GameDeleted, GameNotFound}
         /\ delId[d] \notin GameIds
         /\ \A it \in order_items : it.game_id # delId[d]
  /\ \A d \in ordersResp.deleted : \A o \in delOrders[d] :
       \E row \in ordersResp.recordset :
         row.order_id = o /\ row.game_title = "Deleted Game"

\* What the order report does show after a game is deleted: every order
\* that held the game, by the rows of its remaining items, or, when no item
\* remains, by one row titled 'Deleted Game'.
OrdersOfDeletedGameListed ==
  \A d \in ordersResp.deleted : \A o \in delOrders[d] :
    /\ \E row \in ordersResp.recordset : row.order_id = o
    /\ \A row \in ordersResp.recordset :
         row.order_id = o => (row.game_title = "Deleted Game" <=> row.order_item_id = NullId)

====
